---- MODULE Spec2Model ----
(***************************************************************************)
(* Lesson lifecycle (start / progress / complete) and the streak and badge *)
(* computation of routes/lessons.js, over one row of the users table.      *)
(*                                                                         *)
(* JavaScript objects are functions whose domain is the set of keys that   *)
(* are present: reading a missing key gives `undefined`, which the code    *)
(* replaces with `x || default`.  Timestamps are clock ticks; a calendar   *)
(* date is the day a tick falls on.                                        *)
(***************************************************************************)
EXTENDS Integers, Sequences, FiniteSets, TLC

\* ------------------------------------------------------------------ bounds
\* Calendar days of a run of the streak specifications (days 0..StreakDays-1).
StreakDays == 4
\* Calendar days of a run of the merge specification.
MergeDays == 1
\* Clock ticks per calendar day.
TicksPerDay == 2
\* Cap on total_lessons_completed (the counter is unbounded in the code).
MaxTotal == 5
\* Clock ticks of a run of the one-time-password specification.
OtpTicks == 3
\* OTP_EXPIRY_MINUTES of the environment, in clock ticks.
OtpExpiryTicks == 1
\* Cap on the one-time passwords issued in a run.
MaxIssued == 2
\* Failed guesses after which verify-otp refuses a stored OTP.
MaxAttempts == 3

\* Rows of the lessons table, and a lesson id that is not in it.
LessonsTable == {"A", "B"}
UnknownLessonIds == {"Z"}
\* A row of the lessons table as it is inserted (column defaults).
NewLesson == [is_published |-> FALSE, support_materials |-> << >>]
\* The requests that can be in flight at the same time.
Requests == {1, 2}

\* Request values of PUT /:id/progress in the merge specification.
PositionInputs == {-1, 2}
WatchTimeInputs == {0, 1}
PercentageInputs == {-10, 50, 100, 150}
\* Request values of final_watch_time of POST /:id/complete.
FinalWatchTimeInputs == {3}
\* Request values of rating and feedback of POST /:id/complete.
RatingInputs == {4, 5}
FeedbackInputs == {"clear", "too long"}

VARIABLES
    now,                      \* server clock (ticks)
    lesson_progress,          \* users.lesson_progress (JSONB)
    current_streak,           \* users.current_streak
    longest_streak,           \* users.longest_streak
    total_lessons_completed,  \* users.total_lessons_completed
    badges_earned,            \* users.badges_earned (TEXT[])
    last_activity_date,       \* users.last_activity_date (DATE, nullable)
    lessons,                  \* the lessons table (is_published, support_materials)
    inflight,                 \* requests that have read the users row and not written yet
    otpStore,                 \* auth routes: otpStore (Map of email to the stored OTP)
    issued,                   \* auth routes: stored-OTP objects created so far
    logins,                   \* history: the stored OTP of each successful login
    verified,                 \* history: the last verify-otp request and what it found
    completionDays,           \* history: days with a counted completion
    dayMinStreak,             \* history: least current_streak seen today
    response,                 \* history: body of the last response sent
    previous_response         \* history: body of the response before it

userRow == <<lesson_progress, current_streak, longest_streak,
             total_lessons_completed, badges_earned, last_activity_date>>

history == <<completionDays, dayMinStreak, response, previous_response>>

\* What a lifecycle request served on its own leaves alone: it does not write
\* the lessons table and no other request is between its read and its write.
\* The state of the auth routes.
otps == <<otpStore, issued, logins, verified>>

others == <<lessons, inflight, otps>>

vars == <<now, userRow, others, history>>

\* ------------------------------------------------------- JavaScript values
\* The empty object {} (also: no response yet).
EmptyObject == << >>

\* SQL NULL of a DATE column; a date d is stored as <<d>>.
NoDate == << >>
SomeDate(d) == <<d>>

Has(obj, key) == key \in DOMAIN obj

\* JSON values that are not numbers (a string and null) stand in a request
\* body as these two values, which no request carries as a number.
NonNumbers == {1001, 1002}

\* A check that takes every value that is present for a number.
TypeofDefined(obj, key) == Has(obj, key)

\* typeof obj[key] === 'number'
TypeofNumber(obj, key) == Has(obj, key) /\ obj[key] \notin NonNumbers

\* obj[key] || dflt
GetOr(obj, key, dflt) == IF Has(obj, key) THEN obj[key] ELSE dflt

\* { ...base, ...upd }
Merge(base, upd) ==
    [k \in (DOMAIN base) \cup (DOMAIN upd) |->
        IF k \in DOMAIN upd THEN upd[k] ELSE base[k]]

\* The keys of obj that are in keys, with their values.
Pick(obj, keys) == [k \in (DOMAIN obj) \cap keys |-> obj[k]]

MathMax(a, b) == IF a >= b THEN a ELSE b
MathMin(a, b) == IF a <= b THEN a ELSE b

\* new Date().toISOString().split('T')[0] of a timestamp
DateOf(ts) == ts \div TicksPerDay

today == DateOf(now)

\* array.includes(x)
Includes(arr, x) == \E i \in 1..Len(arr) : arr[i] = x

\* ---------------------------------------------------------- request bodies
\* Bodies of PUT /:id/progress with both required numbers, with and without
\* the optional completion_percentage.
ValidProgressBodies(positions, watchTimes, percentages) ==
    LET required == [last_watched_position : positions,
                     total_watch_time : watchTimes]
    IN required \cup
       { Merge(r, [completion_percentage |-> p]) :
           r \in required, p \in percentages }

\* Bodies in which a required number is missing or is not a number.
InvalidProgressBodies ==
    {EmptyObject, [last_watched_position |-> 0], [total_watch_time |-> 0]}
    \cup [last_watched_position : NonNumbers, total_watch_time : {0}]
    \cup [last_watched_position : {0}, total_watch_time : NonNumbers]

\* Bodies of POST /:id/complete.
CompleteBodies(finalWatchTimes) ==
    {EmptyObject} \cup [final_watch_time : finalWatchTimes]

\* The same bodies, with and without a rating and a feedback.
RatedCompleteBodies(finalWatchTimes, ratings, feedbacks) ==
    { Merge(Merge(b, r), f) :
        b \in CompleteBodies(finalWatchTimes),
        r \in {EmptyObject} \cup [rating : ratings],
        f \in {EmptyObject} \cup [feedback : feedbacks] }

\* currentProgress[lessonId] || {}
LessonProgressOf(currentProgress, lessonId) ==
    GetOr(currentProgress, lessonId, EmptyObject)

IsCompleted(progress) == GetOr(progress, "status", "not_started") = "completed"

\* ------------------------------------------------------ POST /:id/start
StartStatus(lessonProgress) ==
    IF IsCompleted(lessonProgress) THEN "completed" ELSE "in_progress"

StartProgress(lessonProgress) ==
    Merge(lessonProgress,
          [status |-> StartStatus(lessonProgress),
           last_watched_position |-> GetOr(lessonProgress, "last_watched_position", 0),
           total_watch_time |-> GetOr(lessonProgress, "total_watch_time", 0),
           completion_percentage |-> GetOr(lessonProgress, "completion_percentage", 0)])

Start(lessonId) ==
    IF lessonId \notin LessonsTable
    THEN UNCHANGED <<now, userRow>>
    ELSE LET currentProgress == lesson_progress
             lessonProgress == LessonProgressOf(currentProgress, lessonId)
             updatedProgress == StartProgress(lessonProgress)
         IN /\ lesson_progress' =
                   Merge(currentProgress, [k \in {lessonId} |-> updatedProgress])
            /\ last_activity_date' = SomeDate(today)
            /\ UNCHANGED <<now, current_streak, longest_streak,
                           total_lessons_completed, badges_earned>>

\* --------------------------------------------------- PUT /:id/progress
\* completion_percentage >= 100 ? 'completed' : 'in_progress'
\* (an absent completion_percentage is undefined, and undefined >= 100 is false)
ProgressStatus(body, lessonProgress) ==
    IF Has(body, "completion_percentage") /\ body["completion_percentage"] >= 100
    THEN "completed" ELSE "in_progress"

\* A merge that stores the incoming number as it is.
MergeNumberOverwrite(incoming, stored) == incoming

\* Math.max(incoming, stored || 0)
MergeNumber(incoming, stored) == MathMax(incoming, stored)

\* Math.min(Math.max(incoming || 0, stored || 0), 100)
MergePercentage(incoming, stored) == MathMin(MathMax(incoming, stored), 100)

UpdateProgress(body, lessonProgress) ==
    Merge(lessonProgress,
          [status |-> ProgressStatus(body, lessonProgress),
           last_watched_position |->
               MergeNumber(body["last_watched_position"],
                           GetOr(lessonProgress, "last_watched_position", 0)),
           total_watch_time |->
               MergeNumber(body["total_watch_time"],
                           GetOr(lessonProgress, "total_watch_time", 0)),
           completion_percentage |->
               MergePercentage(GetOr(body, "completion_percentage", 0),
                               GetOr(lessonProgress, "completion_percentage", 0))])

Progress(lessonId, body) ==
    IF ~(TypeofNumber(body, "last_watched_position")
             /\ TypeofNumber(body, "total_watch_time"))
    THEN UNCHANGED <<now, userRow>>
    ELSE LET currentProgress == lesson_progress
             lessonProgress == LessonProgressOf(currentProgress, lessonId)
             updatedProgress == UpdateProgress(body, lessonProgress)
         IN /\ lesson_progress' =
                   Merge(currentProgress, [k \in {lessonId} |-> updatedProgress])
            /\ last_activity_date' = SomeDate(today)
            /\ UNCHANGED <<now, current_streak, longest_streak,
                           total_lessons_completed, badges_earned>>

\* --------------------------------- PUT /:id/progress, in two steps
\* The handler awaits the datastore twice: it reads the users row, and later
\* writes the merge of what it read.  A request between the two is in flight
\* with the lesson_progress it read.
Idle(request) == DOMAIN inflight[request] = {}

ReadProgress(request, lessonId, body) ==
    /\ Idle(request)
    /\ TypeofNumber(body, "last_watched_position")
    /\ TypeofNumber(body, "total_watch_time")
    /\ inflight' = [inflight EXCEPT ![request] =
                        [lesson_id |-> lessonId, body |-> body,
                         currentProgress |-> lesson_progress]]
    /\ UNCHANGED <<now, userRow, lessons, otps>>

WriteProgress(request) ==
    /\ ~Idle(request)
    /\ LET lessonId == inflight[request].lesson_id
           currentProgress == inflight[request].currentProgress
           lessonProgress == LessonProgressOf(currentProgress, lessonId)
           updatedProgress == UpdateProgress(inflight[request].body, lessonProgress)
       IN lesson_progress' =
              Merge(currentProgress, [k \in {lessonId} |-> updatedProgress])
    /\ last_activity_date' = SomeDate(today)
    /\ inflight' = [inflight EXCEPT ![request] = EmptyObject]
    /\ UNCHANGED <<now, current_streak, longest_streak,
                   total_lessons_completed, badges_earned, lessons, otps>>

\* --------------------------------------------------- POST /:id/complete
FirstLessonBadge == "first lesson"
FiveLessonsBadge == "5 lessons"
TenLessonsBadge == "10 lessons"
ThreeDayStreakBadge == "3-day streak"
WeekStreakBadge == "week streak"
MonthStreakBadge == "month streak"

\* Some other lesson is stored as completed with a completed_at of today.
HasCompletedTodayAlready(currentProgress, lessonId, day) ==
    \E progressLessonId \in DOMAIN currentProgress :
        LET progress == currentProgress[progressLessonId]
        IN /\ IsCompleted(progress)
           /\ Has(progress, "completed_at")
           /\ DateOf(progress["completed_at"]) = day
           /\ progressLessonId # lessonId

\* A streak that also grows when the last activity was today.
StreakByLastActivityCountingToday(streak, lastActivityDate, day) ==
    IF lastActivityDate # NoDate
    THEN IF lastActivityDate = SomeDate(day - 1) \/ lastActivityDate = SomeDate(day)
         THEN streak + 1
         ELSE 1
    ELSE 1

\* A streak that is reset by every last activity other than yesterday's.
StreakResetUnlessYesterday(streak, lastActivityDate, day) ==
    IF lastActivityDate = SomeDate(day - 1) THEN streak + 1 ELSE 1

\* The streak of the first lesson completed today, before the zero repair.
StreakByLastActivity(streak, lastActivityDate, day) ==
    IF lastActivityDate # NoDate
    THEN IF lastActivityDate = SomeDate(day - 1) THEN streak + 1
         ELSE IF lastActivityDate = SomeDate(day) THEN streak
         ELSE 1
    ELSE 1

\* A streak of 0 that is left as it is.
KeepZeroStreak(streak) == streak

\* if (newStreak === 0) newStreak = 1
RepairZeroStreak(streak) == IF streak = 0 THEN 1 ELSE streak

\* A longest streak that is never raised.
KeepLongest(streak, longest) == longest

\* if (newStreak > newLongestStreak) newLongestStreak = newStreak
RaiseLongest(streak, longest) == IF streak > longest THEN streak ELSE longest

\* A streak that grows with every counted completion.
NewStreakEachCompletion(wasAlreadyCompleted, hasCompletedToday, streak, lastActivityDate, day) ==
    IF wasAlreadyCompleted THEN streak ELSE streak + 1

NewStreak(wasAlreadyCompleted, hasCompletedToday, streak, lastActivityDate, day) ==
    IF wasAlreadyCompleted THEN streak
    ELSE IF ~hasCompletedToday
         THEN RepairZeroStreak(StreakByLastActivity(streak, lastActivityDate, day))
         ELSE RepairZeroStreak(streak)

NewLongestStreak(wasAlreadyCompleted, hasCompletedToday, streak, newStreak, longest) ==
    IF wasAlreadyCompleted THEN longest
    ELSE IF ~hasCompletedToday THEN RaiseLongest(newStreak, longest)
    ELSE IF streak = 0 THEN RaiseLongest(newStreak, longest)
    ELSE longest

\* A count that starts from 0 instead of the stored count.
NewTotalCompletedFromZero(wasAlreadyCompleted, total) ==
    IF wasAlreadyCompleted THEN 0 ELSE 1

\* A count that every Complete request increments.
NewTotalCompletedAlways(wasAlreadyCompleted, total) == total + 1

NewTotalCompleted(wasAlreadyCompleted, total) ==
    IF wasAlreadyCompleted THEN total ELSE total + 1

\* A push without the includes() check.
AwardBadgeAgain(currentBadges, cond, badge) ==
    IF cond THEN Append(currentBadges, badge) ELSE currentBadges

\* if (cond && !currentBadges.includes(badge)) currentBadges.push(badge)
AwardBadge(currentBadges, cond, badge) ==
    IF cond /\ ~Includes(currentBadges, badge)
    THEN Append(currentBadges, badge) ELSE currentBadges

\* The threshold checks of the lesson counts alone.
ThresholdChecksOfTotal(badges, newTotalCompleted, newStreak) ==
    LET b1 == AwardBadge(badges, newTotalCompleted = 1, FirstLessonBadge)
        b2 == AwardBadge(b1, newTotalCompleted = 5, FiveLessonsBadge)
        b3 == AwardBadge(b2, newTotalCompleted = 10, TenLessonsBadge)
    IN b3

\* The six threshold checks applied to a list.
ThresholdChecks(badges, newTotalCompleted, newStreak) ==
    LET b1 == AwardBadge(badges, newTotalCompleted = 1, FirstLessonBadge)
        b2 == AwardBadge(b1, newTotalCompleted = 5, FiveLessonsBadge)
        b3 == AwardBadge(b2, newTotalCompleted = 10, TenLessonsBadge)
        b4 == AwardBadge(b3, newStreak = 3, ThreeDayStreakBadge)
        b5 == AwardBadge(b4, newStreak = 7, WeekStreakBadge)
        b6 == AwardBadge(b5, newStreak = 30, MonthStreakBadge)
    IN b6

\* currentBadges that starts as an empty list instead of a copy of the
\* stored one.
EvaluateBadgesFromEmpty(badges, wasAlreadyCompleted, newTotalCompleted, newStreak) ==
    IF wasAlreadyCompleted THEN << >>
    ELSE ThresholdChecks(<< >>, newTotalCompleted, newStreak)

\* currentBadges after the six threshold checks.
EvaluateBadges(badges, wasAlreadyCompleted, newTotalCompleted, newStreak) ==
    IF wasAlreadyCompleted THEN badges
    ELSE ThresholdChecks(badges, newTotalCompleted, newStreak)

\* newBadgesEarned: what the checks pushed, in order.
NewBadgesEarned(before, after) == SubSeq(after, Len(before) + 1, Len(after))

\* rating: rating || lessonProgress.rating, and likewise feedback and
\* session_summary: the value of the request where it has one, else the
\* stored value (a key whose value is undefined is not stored).
CompleteOptionalKeys == {"rating", "feedback", "session_summary"}

CompleteProgress(body, lessonProgress, ts) ==
    Merge(Merge(lessonProgress,
                [status |-> "completed",
                 completed_at |-> ts,
                 final_watch_time |->
                     GetOr(body, "final_watch_time",
                           GetOr(lessonProgress, "total_watch_time", 0)),
                 completion_percentage |-> 100]),
          Pick(body, CompleteOptionalKeys))

\* What the handler computes from the users row it read, at the time ts: the
\* record and the statistics it writes, which are also the user_stats of its
\* response.
CompleteResultOf(user, lessonId, body, ts) ==
    LET currentProgress == user.lesson_progress
        lessonProgress == LessonProgressOf(currentProgress, lessonId)
        wasAlreadyCompleted == IsCompleted(lessonProgress)
        updatedProgress == CompleteProgress(body, lessonProgress, ts)
        hasCompletedToday ==
            HasCompletedTodayAlready(currentProgress, lessonId, DateOf(ts))
        newTotalCompleted ==
            NewTotalCompleted(wasAlreadyCompleted, user.total_lessons_completed)
        newStreak == NewStreak(wasAlreadyCompleted, hasCompletedToday,
                               user.current_streak, user.last_activity_date,
                               DateOf(ts))
        newLongestStreak ==
            NewLongestStreak(wasAlreadyCompleted, hasCompletedToday,
                             user.current_streak, newStreak, user.longest_streak)
        currentBadges == EvaluateBadges(user.badges_earned, wasAlreadyCompleted,
                                        newTotalCompleted, newStreak)
    IN [lesson_progress |->
            Merge(currentProgress, [k \in {lessonId} |-> updatedProgress]),
        completed_at |-> updatedProgress["completed_at"],
        final_watch_time |-> updatedProgress["final_watch_time"],
        was_already_completed |-> wasAlreadyCompleted,
        current_streak |-> newStreak,
        longest_streak |-> newLongestStreak,
        total_lessons_completed |-> newTotalCompleted,
        badges_earned |-> currentBadges,
        new_badges |-> NewBadgesEarned(user.badges_earned, currentBadges)]

\* The columns POST /:id/complete selects from the users row.
UserRowRead ==
    [lesson_progress |-> lesson_progress,
     current_streak |-> current_streak,
     longest_streak |-> longest_streak,
     total_lessons_completed |-> total_lessons_completed,
     badges_earned |-> badges_earned,
     last_activity_date |-> last_activity_date]

\* The same computation by a request that is served alone: on the row as
\* it is stored, at the current time.
CompleteResult(lessonId, body) ==
    CompleteResultOf(UserRowRead, lessonId, body, now)

Complete(lessonId, body) ==
    LET result == CompleteResult(lessonId, body)
    IN /\ result.was_already_completed \/ total_lessons_completed < MaxTotal
       /\ lesson_progress' = result.lesson_progress
       /\ current_streak' = result.current_streak
       /\ longest_streak' = result.longest_streak
       /\ total_lessons_completed' = result.total_lessons_completed
       /\ badges_earned' = result.badges_earned
       /\ last_activity_date' = SomeDate(today)
       /\ UNCHANGED now

\* ------------------------- the lifecycle handlers, in two steps
\* Each handler awaits the datastore for the users row and, later, for the
\* update that stores what it computed from that row.  Between the two the
\* request is in flight with the columns it selected.
ReadUser(request, op, lessonId, body) ==
    /\ Idle(request)
    /\ op = "start" => lessonId \in LessonsTable
    /\ op = "progress" => /\ TypeofNumber(body, "last_watched_position")
                          /\ TypeofNumber(body, "total_watch_time")
    /\ op = "complete" =>
           \/ IsCompleted(LessonProgressOf(lesson_progress, lessonId))
           \/ total_lessons_completed < MaxTotal
    /\ inflight' = [inflight EXCEPT ![request] =
                        [op |-> op, lesson_id |-> lessonId, body |-> body,
                         user |-> IF op = "complete" THEN UserRowRead
                                  ELSE [lesson_progress |-> lesson_progress]]]
    /\ UNCHANGED <<now, userRow, lessons, otps>>

\* The lesson_progress column a request in flight writes.
LessonProgressWritten(read) ==
    LET currentProgress == read.user.lesson_progress
        lessonProgress == LessonProgressOf(currentProgress, read.lesson_id)
        updatedProgress ==
            CASE read.op = "start" -> StartProgress(lessonProgress)
              [] read.op = "progress" -> UpdateProgress(read.body, lessonProgress)
              [] read.op = "complete" -> CompleteProgress(read.body, lessonProgress, now)
    IN Merge(currentProgress, [k \in {read.lesson_id} |-> updatedProgress])

WriteUser(request) ==
    /\ ~Idle(request)
    /\ lesson_progress' = LessonProgressWritten(inflight[request])
    /\ last_activity_date' = SomeDate(today)
    /\ IF inflight[request].op = "complete"
       THEN LET result == CompleteResultOf(inflight[request].user,
                                           inflight[request].lesson_id,
                                           inflight[request].body, now)
            IN /\ current_streak' = result.current_streak
               /\ longest_streak' = result.longest_streak
               /\ total_lessons_completed' = result.total_lessons_completed
               /\ badges_earned' = result.badges_earned
       ELSE UNCHANGED <<current_streak, longest_streak,
                        total_lessons_completed, badges_earned>>
    /\ inflight' = [inflight EXCEPT ![request] = EmptyObject]
    /\ UNCHANGED <<now, lessons, otps>>

\* ------------------------------------------------- GET /:id/resume
\* A read of the stored record: missing numbers read as 0, a missing status
\* as not_started.
Resume(lessonId) ==
    LET lessonProgress == LessonProgressOf(lesson_progress, lessonId)
    IN [lesson_id |-> lessonId,
        last_position |-> GetOr(lessonProgress, "last_watched_position", 0),
        total_progress |-> GetOr(lessonProgress, "completion_percentage", 0),
        status |-> GetOr(lessonProgress, "status", "not_started"),
        total_watch_time |-> GetOr(lessonProgress, "total_watch_time", 0),
        can_resume |-> GetOr(lessonProgress, "last_watched_position", 0) > 0]

\* ------------------------------------------------------- response bodies
StartResponse(lessonId) ==
    IF lessonId \notin LessonsTable
    THEN [error |-> "Lesson not found"]
    ELSE [message |-> "Lesson session started successfully",
          lesson_id |-> lessonId,
          resume_position |->
              StartProgress(LessonProgressOf(lesson_progress, lessonId))
                  ["last_watched_position"]]

ProgressResponse(lessonId, body) ==
    IF ~(TypeofNumber(body, "last_watched_position")
             /\ TypeofNumber(body, "total_watch_time"))
    THEN [error |-> "Invalid data"]
    ELSE LET updatedProgress ==
                 UpdateProgress(body, LessonProgressOf(lesson_progress, lessonId))
         IN [message |-> "Progress updated successfully",
             lesson_id |-> lessonId,
             status |-> updatedProgress["status"],
             last_watched_position |-> updatedProgress["last_watched_position"],
             total_watch_time |-> updatedProgress["total_watch_time"],
             completion_percentage |-> updatedProgress["completion_percentage"]]

CompleteResponse(lessonId, body) ==
    LET result == CompleteResult(lessonId, body)
    IN [message |-> "Lesson completed successfully",
        lesson_id |-> lessonId,
        completed_at |-> result.completed_at,
        final_watch_time |-> result.final_watch_time,
        completion_percentage |-> 100,
        was_already_completed |-> result.was_already_completed,
        current_streak |-> result.current_streak,
        longest_streak |-> result.longest_streak,
        total_lessons_completed |-> result.total_lessons_completed,
        badges_earned |-> result.badges_earned,
        new_badges |-> result.new_badges]

\* ------------------------------------------------------ support materials
\* Ids of the materials of the requests, and one that no lesson has.
LinkMaterialId == "m1"
FileMaterialId == "m2"
UnknownMaterialIds == {"m9"}

\* A JWT of a request: one that jwt.verify rejects, and one for each row of
\* the users table that signs in (an active learner, an active admin and a
\* deactivated learner), and one whose users row is no longer there.
InvalidToken == [valid |-> FALSE]
TokenOf(role, isActive) ==
    [valid |-> TRUE, user |-> [role |-> role, is_active |-> isActive]]
TokenOfMissingUser == [valid |-> TRUE]
Tokens ==
    {InvalidToken, TokenOf("learner", TRUE), TokenOf("admin", TRUE),
     TokenOf("learner", FALSE), TokenOfMissingUser}

\* Where a request carries its token: nowhere, in the Authorization header
\* or in the token query parameter.
Credentials ==
    {EmptyObject} \cup [authorization : Tokens] \cup [query_token : Tokens]

\* middleware/auth.js authenticateToken: the response it sends, or the
\* users row it attaches to the request as req.user.
AuthenticateToken(req) ==
    IF ~Has(req, "authorization")
    THEN [status |-> 401, error |-> "Access token required"]
    ELSE IF ~req.authorization.valid
    THEN [status |-> 401, error |-> "Invalid token"]
    ELSE IF ~Has(req.authorization, "user")
    THEN [status |-> 401, error |-> "User not found"]
    ELSE IF ~req.authorization.user.is_active
    THEN [status |-> 403, error |-> "Account deactivated"]
    ELSE [user |-> req.authorization.user]

\* requireAdmin, after authenticateToken.
RequireAdmin(req) ==
    LET auth == AuthenticateToken(req)
    IN IF ~Has(auth, "user") THEN auth
       ELSE IF auth.user.role # "admin"
       THEN [status |-> 403, error |-> "Insufficient permissions"]
       ELSE auth

\* uploadToCloudinary: the storage object id of an uploaded file, and the
\* permanent (unsigned) URL the storage provider returns for it.
CloudinaryPublicId(fileName, ts) == <<"lesson_materials", ts, fileName>>
SecureUrl(publicId) == <<"https://res.cloudinary.com", "raw", "private", publicId>>

\* generateSignedUrl(publicId, { expires_at })
GenerateSignedUrl(publicId, expiresAt) ==
    [url |-> SecureUrl(publicId), expires_at |-> expiresAt, signed |-> TRUE]

\* Materials as an admin sends them: a link, and a file whose bytes come in
\* the same request under the field name material_file_<id>.
LinkMaterial ==
    [id |-> LinkMaterialId, type |-> "link", name |-> "article",
     url |-> <<"https://example.com/article">>]
FileMaterial ==
    [id |-> FileMaterialId, type |-> "file", name |-> "guide",
     fileName |-> "guide.pdf"]
UploadedFile(materialId) ==
    [fieldname |-> materialId, size |-> 1, mimetype |-> "application/pdf"]

\* files.find(file => file.fieldname === `material_file_${material.id}`);
\* failing that, the only file of the request when the request has one file
\* and one file material.
FindUploadedFile(material, materials, files) ==
    LET byFieldname == {file \in files : file.fieldname = material.id}
        fileMaterials == SelectSeq(materials, LAMBDA m : m.type = "file")
    IN IF byFieldname # {} THEN byFieldname
       ELSE IF Cardinality(files) = 1 /\ Len(fileMaterials) = 1 THEN files
       ELSE {}

\* What processSupportMaterials stores for one material: a list of one
\* record, or nothing for a file material without bytes and without url.
ProcessMaterial(material, materials, files, ts) ==
    IF material.type = "link"
    THEN << [id |-> material.id, type |-> "link", name |-> material.name,
             url |-> material.url,
             created_at |-> GetOr(material, "created_at", ts)] >>
    ELSE LET uploaded == FindUploadedFile(material, materials, files)
         IN IF uploaded # {}
            THEN LET uploadedFile == CHOOSE file \in uploaded : TRUE
                     publicId == CloudinaryPublicId(material.fileName, ts)
                 IN << [id |-> material.id, type |-> "file",
                        name |-> material.name,
                        fileName |-> material.fileName,
                        fileSize |-> uploadedFile.size,
                        fileType |-> uploadedFile.mimetype,
                        url |-> SecureUrl(publicId),
                        cloudinaryPublicId |-> publicId,
                        created_at |-> GetOr(material, "created_at", ts)] >>
            ELSE IF Has(material, "url") THEN <<material>>
            ELSE << >>

RECURSIVE ProcessFrom(_, _, _, _)
ProcessFrom(i, materials, files, ts) ==
    IF i > Len(materials) THEN << >>
    ELSE ProcessMaterial(materials[i], materials, files, ts)
             \o ProcessFrom(i + 1, materials, files, ts)

processSupportMaterials(materials, files, ts) ==
    ProcessFrom(1, materials, files, ts)

\* ------------------------------------------------------ PUT /:id (admin)
\* The row after the update: only the fields the request provides change.
UpdatedLesson(lesson, body, files, ts) ==
    Merge(lesson,
          Merge(IF Has(body, "support_materials")
                THEN [support_materials |->
                          processSupportMaterials(body.support_materials, files, ts)]
                ELSE EmptyObject,
                Pick(body, {"is_published"})))

UpdateLessonResponse(req, lessonId, body, files) ==
    LET auth == RequireAdmin(req)
    IN IF ~Has(auth, "user") THEN auth
       ELSE IF lessonId \notin DOMAIN lessons
       THEN [status |-> 404, error |-> "Lesson not found"]
       ELSE [status |-> 200, message |-> "Lesson updated successfully",
             lesson |-> UpdatedLesson(lessons[lessonId], body, files, now)]

UpdateLesson(req, lessonId, body, files) ==
    LET sent == UpdateLessonResponse(req, lessonId, body, files)
    IN /\ lessons' = IF sent.status = 200
                     THEN [lessons EXCEPT ![lessonId] = sent.lesson]
                     ELSE lessons
       /\ UNCHANGED <<now, userRow, inflight, otps>>

\* ------------------------------- GET /:id/materials/:materialId/view
ExpiresInHours == 2
StreamUrlMinutes == 5

\* supportMaterials.find(m => m.id === materialId): the materials found.
FindMaterial(supportMaterials, materialId) ==
    SelectSeq(supportMaterials, LAMBDA m : m.id = materialId)

\* A time `minutes` after the clock reading `ts`.
MinutesAfter(ts, minutes) == [after |-> ts, minutes |-> minutes]

ViewMaterial(req, lessonId, materialId) ==
    LET auth == AuthenticateToken(req)
    IN IF ~Has(auth, "user") THEN auth
       ELSE IF lessonId \notin DOMAIN lessons
       THEN [status |-> 404, error |-> "Lesson not found"]
       ELSE IF ~lessons[lessonId].is_published /\ auth.user.role # "admin"
       THEN [status |-> 403, error |-> "Access denied"]
       ELSE LET found == FindMaterial(lessons[lessonId].support_materials, materialId)
            IN IF found = << >>
               THEN [status |-> 404, error |-> "Material not found"]
               ELSE IF Head(found).type # "file"
               THEN [status |-> 400, error |-> "Invalid material type"]
               ELSE LET material == Head(found)
                        expiresAt == MinutesAfter(now, 60 * ExpiresInHours)
                    IN [status |-> 200, success |-> TRUE,
                        data |-> [materialId |-> materialId,
                                  materialName |-> material.name,
                                  fileName |-> material.fileName,
                                  signedUrl |->
                                      GenerateSignedUrl(material.cloudinaryPublicId,
                                                        expiresAt),
                                  expiresAt |-> expiresAt,
                                  expiresInMinutes |-> 60 * ExpiresInHours]]

\* ----------------------------- GET /:id/materials/:materialId/stream
\* The token of the Authorization header, else the token query parameter.
StreamToken(req) ==
    IF Has(req, "authorization") THEN <<req.authorization>>
    ELSE IF Has(req, "query_token") THEN <<req.query_token>>
    ELSE << >>

\* The route has no authenticateToken middleware, so req.user is undefined:
\* for an unpublished lesson the condition reads req.user.role, which throws
\* a TypeError that the handler's catch answers with status 500.
StreamMaterial(req, lessonId, materialId, upstreamResponds) ==
    IF StreamToken(req) = << >>
    THEN [status |-> 401, error |-> "Authentication required"]
    ELSE IF ~Head(StreamToken(req)).valid
    THEN [status |-> 401, error |-> "Invalid token"]
    ELSE IF lessonId \notin DOMAIN lessons
    THEN [status |-> 404, error |-> "Lesson not found"]
    ELSE IF ~lessons[lessonId].is_published
    THEN [status |-> 500, error |-> "Internal server error"]
    ELSE LET found == FindMaterial(lessons[lessonId].support_materials, materialId)
         IN IF found = << >> \/ Head(found).type # "file"
            THEN [status |-> 404, error |-> "Material not found"]
            ELSE IF ~upstreamResponds
            THEN [status |-> 500, error |-> "Failed to stream file"]
            ELSE [status |-> 200,
                  content_type |-> "application/pdf",
                  filename |-> Head(found).fileName,
                  bytes_of |->
                      GenerateSignedUrl(Head(found).cloudinaryPublicId,
                                        MinutesAfter(now, StreamUrlMinutes))]

\* --------------------------------------------- GET /:id/materials
AccessUrl(lessonId, materialId, endpoint) ==
    <<"/api/lessons", lessonId, "materials", materialId, endpoint>>

MaterialWithAccess(lessonId, material) ==
    IF material.type = "link"
    THEN Merge(material, [accessUrl |-> material.url, accessType |-> "direct"])
    ELSE IF material.type = "file"
    THEN Merge(material,
               [accessUrl |-> AccessUrl(lessonId, material.id, "stream"),
                viewUrl |-> AccessUrl(lessonId, material.id, "view"),
                accessType |-> "protected"])
    ELSE material

ListMaterials(req, lessonId) ==
    LET auth == AuthenticateToken(req)
    IN IF ~Has(auth, "user") THEN auth
       ELSE IF lessonId \notin DOMAIN lessons
       THEN [status |-> 404, error |-> "Lesson not found"]
       ELSE IF ~lessons[lessonId].is_published /\ auth.user.role # "admin"
       THEN [status |-> 403, error |-> "Access denied"]
       ELSE LET supportMaterials == lessons[lessonId].support_materials
                materialsWithAccess ==
                    [i \in 1..Len(supportMaterials) |->
                        MaterialWithAccess(lessonId, supportMaterials[i])]
            IN [status |-> 200, success |-> TRUE,
                data |-> [lessonId |-> lessonId,
                          materials |-> materialsWithAccess,
                          totalCount |-> Len(materialsWithAccess)]]

\* ----------------------------------------------------------- auth routes
\* Rows of the users table by email (an active user and a deactivated one),
\* an email that has no row, and a value that is not an email.
UsersTable ==
    [email \in {"active@x.io", "off@x.io"} |->
        [id |-> email, is_active |-> email = "active@x.io"]]
UnknownEmails == {"nobody@x.io"}
InvalidEmails == {"not-an-email"}

\* The value generateOTP returns, a guess that is not it, and a value
\* shorter than four characters.
OtpCodes == {"1111"}
WrongOtps == {"0000"}
ShortOtps == {"1"}

\* expiryMinutes: OTP_EXPIRY_MINUTES, here OtpExpiryTicks clock ticks.
OtpExpiryMinutes == OtpExpiryTicks * (1440 \div TicksPerDay)

\* otpStore.delete(key)
MapDelete(map, key) == [k \in DOMAIN map \ {key} |-> map[k]]

\* The object send-otp stores; ref is the identity of the object.
StoredOtp(ref, otp, userId, ts) ==
    [ref |-> ref, otp |-> otp, expires |-> ts + OtpExpiryTicks,
     userId |-> userId, attempts |-> 0]

\* An entry that is removed only one tick after its expiry has passed.
ExpiredLate(storedOTP, ts) == ts > storedOTP.expires + 1

\* Date.now() > storedOTP.expires
Expired(storedOTP, ts) == ts > storedOTP.expires

\* An entry that allows one guess more.
AttemptsAbove(storedOTP) == storedOTP.attempts > MaxAttempts

\* storedOTP.attempts >= 3
AttemptsExhausted(storedOTP) == storedOTP.attempts >= MaxAttempts

\* POST /send-otp (NODE_ENV is not development: the body holds no code)
SendOtpResponse(email) ==
    IF email \in InvalidEmails
    THEN [status |-> 400, error |-> "Validation failed"]
    ELSE IF email \notin DOMAIN UsersTable
    THEN [status |-> 404, error |-> "User not found"]
    ELSE IF ~UsersTable[email].is_active
    THEN [status |-> 403, error |-> "Account deactivated"]
    ELSE [status |-> 200, message |-> "OTP sent successfully",
          email |-> email, expiresIn |-> OtpExpiryMinutes]

SendOtp(email, otp) ==
    /\ IF SendOtpResponse(email).status = 200
       THEN /\ issued < MaxIssued
            /\ issued' = issued + 1
            /\ otpStore' =
                   Merge(otpStore,
                         [k \in {email} |->
                             StoredOtp(issued + 1, otp, UsersTable[email].id, now)])
       ELSE UNCHANGED <<otpStore, issued>>
    /\ UNCHANGED <<now, userRow, lessons, inflight>>

\* jwt.sign of the access token and of the refresh token
SignTokens(userId, email) ==
    [accessToken |-> [userId |-> userId, email |-> email, role |-> "authenticated"],
     refreshToken |-> [userId |-> userId, email |-> email, type |-> "refresh"]]

\* POST /verify-otp up to its first await: the response it sends, or the
\* empty object when the code matches and the handler goes on.
VerifyOtpRejection(email, otp) ==
    IF email \in InvalidEmails \/ otp \in ShortOtps
    THEN [status |-> 400, error |-> "Validation failed"]
    ELSE IF ~Has(otpStore, email)
    THEN [status |-> 400, error |-> "OTP not found"]
    ELSE IF Expired(otpStore[email], now)
    THEN [status |-> 400, error |-> "OTP expired"]
    ELSE IF AttemptsExhausted(otpStore[email])
    THEN [status |-> 429, error |-> "Too many attempts"]
    ELSE IF otpStore[email].otp # otp
    THEN [status |-> 400, error |-> "Invalid OTP",
          attemptsLeft |-> MaxAttempts - (otpStore[email].attempts + 1)]
    ELSE EmptyObject

VerifyOtpCheck(request, email, otp) ==
    /\ Idle(request)
    /\ LET rejection == VerifyOtpRejection(email, otp)
           error == GetOr(rejection, "error", "")
       IN /\ otpStore' =
                 IF error \in {"OTP expired", "Too many attempts"}
                 THEN MapDelete(otpStore, email)
                 ELSE IF error = "Invalid OTP"
                 THEN [otpStore EXCEPT ![email].attempts = @ + 1]
                 ELSE otpStore
          /\ inflight' =
                 IF DOMAIN rejection = {}
                 THEN [inflight EXCEPT ![request] =
                          [op |-> "verify-otp", email |-> email,
                           storedOTP |-> Pick(otpStore[email], {"ref", "userId"}),
                           tokens |-> SignTokens(otpStore[email].userId, email)]]
                 ELSE inflight
    /\ UNCHANGED <<now, userRow, lessons, issued>>

\* POST /verify-otp from the fetch of the user data to the response.
VerifyOtpFinishResponse(request, userFetched) ==
    IF ~userFetched
    THEN [status |-> 500, error |-> "User data error"]
    ELSE [status |-> 200, message |-> "Login successful",
          user |-> [id |-> inflight[request].storedOTP.userId],
          tokens |-> inflight[request].tokens]

VerifyOtpFinish(request, userFetched) ==
    /\ GetOr(inflight[request], "op", "") = "verify-otp"
    /\ otpStore' = IF userFetched
                   THEN MapDelete(otpStore, inflight[request].email)
                   ELSE otpStore
    /\ inflight' = [inflight EXCEPT ![request] = EmptyObject]
    /\ UNCHANGED <<now, userRow, lessons, issued>>

\* setInterval(..., 60000): delete every entry whose expiry has passed.
CleanupExpired ==
    /\ otpStore' = [email \in {k \in DOMAIN otpStore : ~Expired(otpStore[k], now)}
                       |-> otpStore[email]]
    /\ UNCHANGED <<now, userRow, lessons, inflight, issued>>

\* ------------------------------------------------------------ the clock
Tick(days) ==
    /\ now + 1 < days * TicksPerDay
    /\ now' = now + 1
    /\ UNCHANGED <<userRow, others>>

\* ------------------------------------------------------- specifications
\* A new row of the users table (column defaults of 01_users_table.sql).
Init ==
    /\ now = 0
    /\ lesson_progress = EmptyObject
    /\ current_streak = 0
    /\ longest_streak = 0
    /\ total_lessons_completed = 0
    /\ badges_earned = << >>
    /\ last_activity_date = NoDate
    /\ lessons = [lessonId \in LessonsTable |-> NewLesson]
    /\ inflight = [request \in Requests |-> EmptyObject]
    /\ otpStore = EmptyObject
    /\ issued = 0
    /\ logins = << >>
    /\ verified = EmptyObject
    /\ completionDays = {}
    /\ dayMinStreak = 0
    /\ response = EmptyObject
    /\ previous_response = EmptyObject

\* Requests of the streak specifications: two lessons over several days, a
\* progress update either without completion_percentage or with 100.
StreakProgressBodies == ValidProgressBodies({0}, {0}, {100}) \cup {EmptyObject}

AnyStart ==
    /\ \E lessonId \in LessonsTable \cup UnknownLessonIds : Start(lessonId)
    /\ UNCHANGED others

AnyProgress ==
    /\ \E lessonId \in LessonsTable, body \in StreakProgressBodies :
           Progress(lessonId, body)
    /\ UNCHANGED others

AnyComplete ==
    /\ \E lessonId \in LessonsTable, body \in CompleteBodies({}) :
           Complete(lessonId, body)
    /\ UNCHANGED others

StartRequest == AnyStart /\ UNCHANGED history

ProgressRequest == AnyProgress /\ UNCHANGED history

CompleteRequest == AnyComplete /\ UNCHANGED history

ClockTick == Tick(StreakDays) /\ UNCHANGED history

Next == StartRequest \/ ProgressRequest \/ CompleteRequest \/ ClockTick

Spec == Init /\ [][Next]_vars

\* The same requests, recording the least streak seen since the day began.
RecordDayMinStreak ==
    /\ dayMinStreak' = IF DateOf(now') # today THEN current_streak'
                       ELSE MathMin(dayMinStreak, current_streak')
    /\ UNCHANGED <<completionDays, response, previous_response>>

DayMinStart == AnyStart /\ RecordDayMinStreak

DayMinProgress == AnyProgress /\ RecordDayMinStreak

DayMinComplete == AnyComplete /\ RecordDayMinStreak

DayMinTick == Tick(StreakDays) /\ RecordDayMinStreak

NextDayMin == DayMinStart \/ DayMinProgress \/ DayMinComplete \/ DayMinTick

SpecDayMin == Init /\ [][NextDayMin]_vars

\* The same requests, recording the days on which a completion was counted.
KeepCompletionDays ==
    UNCHANGED <<completionDays, dayMinStreak, response, previous_response>>

CountedStart == AnyStart /\ KeepCompletionDays

CountedProgress == AnyProgress /\ KeepCompletionDays

CountedComplete ==
    \E lessonId \in LessonsTable, body \in CompleteBodies({}) :
        /\ Complete(lessonId, body)
        /\ completionDays' =
               IF IsCompleted(LessonProgressOf(lesson_progress, lessonId))
               THEN completionDays ELSE completionDays \cup {today}
        /\ UNCHANGED <<dayMinStreak, response, previous_response, others>>

CountedTick == Tick(StreakDays) /\ KeepCompletionDays

NextCompletionDays ==
    CountedStart \/ CountedProgress \/ CountedComplete \/ CountedTick

SpecCompletionDays == Init /\ [][NextCompletionDays]_vars

\* Requests of the merge specification: one lesson, every combination of the
\* numeric request values, recording the last two responses.
MergeLessonIds == {"A"}

MergeProgressBodies ==
    ValidProgressBodies(PositionInputs, WatchTimeInputs, PercentageInputs)
        \cup InvalidProgressBodies

Respond(body) ==
    /\ response' = body
    /\ previous_response' = response
    /\ UNCHANGED <<completionDays, dayMinStreak>>

MergeStart ==
    \E lessonId \in MergeLessonIds \cup UnknownLessonIds :
        Start(lessonId) /\ Respond(StartResponse(lessonId)) /\ UNCHANGED others

MergeProgress ==
    \E lessonId \in MergeLessonIds, body \in MergeProgressBodies :
        /\ Progress(lessonId, body)
        /\ Respond(ProgressResponse(lessonId, body))
        /\ UNCHANGED others

MergeComplete ==
    \E lessonId \in MergeLessonIds, body \in CompleteBodies(FinalWatchTimeInputs) :
        /\ Complete(lessonId, body)
        /\ Respond(CompleteResponse(lessonId, body))
        /\ UNCHANGED others

MergeTick == Tick(MergeDays) /\ UNCHANGED history

NextMerge == MergeStart \/ MergeProgress \/ MergeComplete \/ MergeTick

SpecMerge == Init /\ [][NextMerge]_vars

\* Requests of the feedback specification: one lesson, completions that
\* carry a final_watch_time, a rating and a feedback or leave them out.
FeedbackCompleteBodies ==
    RatedCompleteBodies(FinalWatchTimeInputs, RatingInputs, FeedbackInputs)

FeedbackStart ==
    /\ \E lessonId \in MergeLessonIds : Start(lessonId)
    /\ UNCHANGED <<others, history>>

FeedbackProgress ==
    /\ \E lessonId \in MergeLessonIds,
          body \in ValidProgressBodies({0}, WatchTimeInputs, {}) :
           Progress(lessonId, body)
    /\ UNCHANGED <<others, history>>

FeedbackComplete ==
    /\ \E lessonId \in MergeLessonIds, body \in FeedbackCompleteBodies :
           Complete(lessonId, body)
    /\ UNCHANGED <<others, history>>

FeedbackTick == Tick(MergeDays) /\ UNCHANGED history

NextFeedback ==
    FeedbackStart \/ FeedbackProgress \/ FeedbackComplete \/ FeedbackTick

SpecFeedback == Init /\ [][NextFeedback]_vars

\* Requests of the materials specification: an admin edits lesson A (its
\* is_published flag and its materials) while requesters with every kind of
\* credentials ask for the materials of lesson A and of an unknown lesson.
MaterialsLessonIds == MergeLessonIds \cup UnknownLessonIds

MaterialRequestIds == {LinkMaterialId, FileMaterialId} \cup UnknownMaterialIds

\* Bodies of PUT /:id with the files uploaded with them.
LessonUpdates ==
    {[body |-> [is_published |-> published], files |-> {}] :
        published \in BOOLEAN}
    \cup
    {[body |-> [support_materials |-> materials], files |-> files] :
        materials \in {<<LinkMaterial>>, <<FileMaterial>>,
                       <<LinkMaterial, FileMaterial>>},
        files \in {{}, {UploadedFile(FileMaterialId)}}}

\* The response is recorded; the response before it is not.
RespondOnly(body) ==
    /\ response' = body
    /\ UNCHANGED <<completionDays, dayMinStreak, previous_response>>

MaterialsUpdateLesson ==
    \E req \in Credentials, lessonId \in MaterialsLessonIds, update \in LessonUpdates :
        /\ UpdateLesson(req, lessonId, update.body, update.files)
        /\ RespondOnly(UpdateLessonResponse(req, lessonId, update.body, update.files))

\* The three read operations: each sends its response and writes nothing.
ViewRequest(req, lessonId, materialId) ==
    /\ RespondOnly(ViewMaterial(req, lessonId, materialId))
    /\ UNCHANGED <<now, userRow, others>>

StreamRequest(req, lessonId, materialId, upstreamResponds) ==
    /\ RespondOnly(StreamMaterial(req, lessonId, materialId, upstreamResponds))
    /\ UNCHANGED <<now, userRow, others>>

ListRequest(req, lessonId) ==
    /\ RespondOnly(ListMaterials(req, lessonId))
    /\ UNCHANGED <<now, userRow, others>>

MaterialsView ==
    \E req \in Credentials, lessonId \in MaterialsLessonIds,
       materialId \in MaterialRequestIds :
        ViewRequest(req, lessonId, materialId)

MaterialsStream ==
    \E req \in Credentials, lessonId \in MaterialsLessonIds,
       materialId \in MaterialRequestIds, upstreamResponds \in BOOLEAN :
        StreamRequest(req, lessonId, materialId, upstreamResponds)

MaterialsList ==
    \E req \in Credentials, lessonId \in MaterialsLessonIds :
        ListRequest(req, lessonId)

MaterialsTick == Tick(MergeDays) /\ UNCHANGED history

NextMaterials ==
    MaterialsUpdateLesson \/ MaterialsView \/ MaterialsStream
        \/ MaterialsList \/ MaterialsTick

SpecMaterials == Init /\ [][NextMaterials]_vars

\* Requests of the concurrent specification: progress updates of one lesson
\* whose reads and writes interleave in every order.
ConcurrentProgressBodies == ValidProgressBodies({1, 2}, {1}, {100})

ConcurrentRead ==
    /\ \E request \in Requests, lessonId \in MergeLessonIds,
          body \in ConcurrentProgressBodies :
           ReadProgress(request, lessonId, body)
    /\ UNCHANGED history

ConcurrentWrite ==
    /\ \E request \in Requests : WriteProgress(request)
    /\ UNCHANGED history

ConcurrentTick == Tick(MergeDays) /\ UNCHANGED history

NextConcurrent == ConcurrentRead \/ ConcurrentWrite \/ ConcurrentTick

SpecConcurrent == Init /\ [][NextConcurrent]_vars

\* Requests of the interleaved specification: Start, Progress update and
\* Complete by one user, one request at a time for lesson A and one at a
\* time for lesson B, the reads and writes of the two interleaved in every
\* order.
InterleavedLessonOf == <<"A", "B">>

InterleavedRequests ==
    [op : {"start"}, body : {EmptyObject}]
    \cup [op : {"progress"}, body : ValidProgressBodies({1}, {1}, {})]
    \cup [op : {"complete"}, body : CompleteBodies({})]

InterleavedRead ==
    /\ \E request \in Requests, sent \in InterleavedRequests :
           ReadUser(request, sent.op, InterleavedLessonOf[request], sent.body)
    /\ UNCHANGED history

InterleavedWrite ==
    /\ \E request \in Requests : WriteUser(request)
    /\ UNCHANGED history

InterleavedTick == Tick(MergeDays) /\ UNCHANGED history

NextInterleaved == InterleavedRead \/ InterleavedWrite \/ InterleavedTick

SpecInterleaved == Init /\ [][NextInterleaved]_vars

\* Requests of the lookup specification: every lifecycle request is made for
\* a lesson of the lessons table and for an id the table does not hold.
LookupLessonIds == MergeLessonIds \cup UnknownLessonIds

LookupProgressBodies == ValidProgressBodies({1}, {1}, {100})

LookupStart ==
    \E lessonId \in LookupLessonIds :
        Start(lessonId) /\ Respond(StartResponse(lessonId)) /\ UNCHANGED others

LookupProgress ==
    \E lessonId \in LookupLessonIds, body \in LookupProgressBodies :
        /\ Progress(lessonId, body)
        /\ Respond(ProgressResponse(lessonId, body))
        /\ UNCHANGED others

LookupComplete ==
    \E lessonId \in LookupLessonIds, body \in CompleteBodies({}) :
        /\ Complete(lessonId, body)
        /\ Respond(CompleteResponse(lessonId, body))
        /\ UNCHANGED others

LookupTick == Tick(MergeDays) /\ UNCHANGED history

NextLookup == LookupStart \/ LookupProgress \/ LookupComplete \/ LookupTick

SpecLookup == Init /\ [][NextLookup]_vars

\* Requests of the one-time-password specification: codes are sent to and
\* verified for every kind of email while the clock passes their expiry, the
\* cleanup timer fires at any time, and two verify-otp requests can be
\* between their check and their response together.
AuthEmails == DOMAIN UsersTable \cup UnknownEmails \cup InvalidEmails

\* verify-otp is sent for the email that can hold a code and for a value
\* that is not an email.
VerifyEmails ==
    {email \in DOMAIN UsersTable : UsersTable[email].is_active} \cup InvalidEmails

OtpInputs == OtpCodes \cup WrongOtps \cup ShortOtps

OtpSend ==
    \E email \in AuthEmails, otp \in OtpCodes :
        /\ SendOtp(email, otp)
        /\ RespondOnly(SendOtpResponse(email))
        /\ UNCHANGED <<logins, verified>>

\* The check of a verify-otp request: a rejection is the response; a match
\* sends nothing yet.
OtpVerifyOf(request, email, otp) ==
    /\ VerifyOtpCheck(request, email, otp)
    /\ IF DOMAIN VerifyOtpRejection(email, otp) = {}
       THEN UNCHANGED history
       ELSE RespondOnly(VerifyOtpRejection(email, otp))
    /\ verified' = [email |-> email, otp |-> otp,
                    stored |-> IF Has(otpStore, email)
                               THEN <<[otp |-> otpStore[email].otp,
                                       attempts |-> otpStore[email].attempts,
                                       expired |-> now > otpStore[email].expires]>>
                               ELSE << >>]
    /\ UNCHANGED logins

OtpVerify ==
    \E request \in Requests, email \in VerifyEmails, otp \in OtpInputs :
        OtpVerifyOf(request, email, otp)

OtpLogin ==
    \E request \in Requests, userFetched \in BOOLEAN :
        /\ VerifyOtpFinish(request, userFetched)
        /\ RespondOnly(VerifyOtpFinishResponse(request, userFetched))
        /\ logins' = IF userFetched
                     THEN Append(logins, inflight[request].storedOTP.ref)
                     ELSE logins
        /\ UNCHANGED verified

OtpCleanup == CleanupExpired /\ UNCHANGED <<history, logins, verified>>

OtpTick == now < OtpTicks /\ Tick(StreakDays) /\ UNCHANGED history

NextOtp == OtpSend \/ OtpVerify \/ OtpLogin \/ OtpCleanup \/ OtpTick

SpecOtp == Init /\ [][NextOtp]_vars

\* ================================================================ claims
IsResponseOf(body, message, lessonId) ==
    /\ GetOr(body, "message", "") = message
    /\ GetOr(body, "lesson_id", "") = lessonId

IsCompleteResponse(body, lessonId) ==
    IsResponseOf(body, "Lesson completed successfully", lessonId)

IsProgressResponse(body, lessonId) ==
    IsResponseOf(body, "Progress updated successfully", lessonId)

StatusRank(status) ==
    CASE status = "not_started" -> 0
      [] status = "in_progress" -> 1
      [] status = "completed" -> 2

\* C1: the status of a lesson record only moves forward, not_started ->
\* in_progress -> completed: once completed is stored, no later Start,
\* Progress update or Complete stores another status.
StatusOnlyMovesForward ==
    [][\A lessonId \in LessonsTable :
          StatusRank(Resume(lessonId).status') >= StatusRank(Resume(lessonId).status)]_vars

\* C2: when Complete is called twice in a row for the same lesson, the second
\* response has was_already_completed = true and no new badges, its
\* current_streak, longest_streak, total_lessons_completed and badges_earned
\* are those of the first response, and the stored count is still the count
\* the first call returned (the second call adds nothing to it).
UserStats(body) ==
    <<body.current_streak, body.longest_streak,
      body.total_lessons_completed, body.badges_earned>>

SecondCompleteChangesNothing ==
    \A lessonId \in LessonsTable :
        (/\ IsCompleteResponse(previous_response, lessonId)
         /\ IsCompleteResponse(response, lessonId))
        => /\ response.was_already_completed
           /\ response.new_badges = << >>
           /\ UserStats(response) = UserStats(previous_response)
           /\ total_lessons_completed = previous_response.total_lessons_completed

\* A first Complete of lesson A that counted, then a second one.
SecondCompleteWitness ==
    /\ IsCompleteResponse(previous_response, "A")
    /\ IsCompleteResponse(response, "A")
    /\ ~previous_response.was_already_completed
    /\ previous_response.new_badges # << >>
    /\ response.was_already_completed
    /\ total_lessons_completed = 1

\* C3: what a read returns for last_watched_position, total_watch_time and
\* completion_percentage of a lesson never decreases from one request to the
\* next, whatever numbers the requests carry.
StoredNumbersNeverDecrease ==
    [][\A lessonId \in LessonsTable :
          /\ Resume(lessonId).last_position' >= Resume(lessonId).last_position
          /\ Resume(lessonId).total_watch_time' >= Resume(lessonId).total_watch_time
          /\ Resume(lessonId).total_progress' >= Resume(lessonId).total_progress]_vars

\* Two progress updates in a row, the second with a completion_percentage
\* below the stored 100 (its status is in_progress), and the stored numbers
\* still at the largest values a request can carry.
StoredNumbersWitness ==
    /\ IsProgressResponse(previous_response, "A")
    /\ IsProgressResponse(response, "A")
    /\ previous_response.completion_percentage = 100
    /\ response.status = "in_progress"
    /\ Resume("A").total_progress = 100
    /\ Resume("A").last_position = 2
    /\ Resume("A").total_watch_time = 1

\* C4: after a Complete that was counted, current_streak is the number of
\* consecutive calendar days, ending today, on each of which a completion was
\* counted.  (Between two counted completions of a day neither side changes.)
RECURSIVE DaysInARow(_)
DaysInARow(day) ==
    IF day \in completionDays THEN 1 + DaysInARow(day - 1) ELSE 0

StreakCountsCompletionDays ==
    today \in completionDays => current_streak = DaysInARow(today)

\* C5: current_streak never stands more than 1 above the least value it had
\* at any moment of the current calendar day.
StreakGrowsOncePerDay == current_streak <= dayMinStreak + 1

CompletedToday(lessonId) ==
    LET progress == LessonProgressOf(lesson_progress, lessonId)
    IN /\ IsCompleted(progress)
       /\ Has(progress, "completed_at")
       /\ DateOf(progress["completed_at"]) = today

\* The streak grew from 1 to 2 today and both lessons were completed today.
StreakGrowsOncePerDayWitness ==
    /\ dayMinStreak = 1
    /\ current_streak = 2
    /\ total_lessons_completed >= 3
    /\ \A lessonId \in LessonsTable : CompletedToday(lessonId)

LongestStreakInvariant == longest_streak >= current_streak

\* A streak of 2 was reached and then reset to 1 by a gap.
LongestStreakWitness ==
    /\ longest_streak = 2
    /\ current_streak = 1
    /\ last_activity_date = SomeDate(today)

\* C8: no badge id appears twice in badges_earned.
NoDuplicateBadges ==
    \A i, j \in 1..Len(badges_earned) :
        badges_earned[i] = badges_earned[j] => i = j

\* A fourth completion was counted while current_streak was still 3, the
\* value that had already earned the 3-day badge.
NoDuplicateBadgesWitness ==
    /\ current_streak = 3
    /\ total_lessons_completed >= 4
    /\ Includes(badges_earned, ThreeDayStreakBadge)

\* C9: every badge in badges_earned before a request is still in it after
\* the request (the stored list only grows at its end).
BadgesAppendOnly ==
    [][/\ Len(badges_earned') >= Len(badges_earned)
       /\ SubSeq(badges_earned', 1, Len(badges_earned)) = badges_earned]_vars

\* Two badges earned at different completions, and requests served since.
BadgesAppendOnlyWitness ==
    /\ badges_earned = <<FirstLessonBadge, ThreeDayStreakBadge, FiveLessonsBadge>>
    /\ \E lessonId \in LessonsTable :
           ~IsCompleted(LessonProgressOf(lesson_progress, lessonId))

\* C10: no request stores a smaller total_lessons_completed than the one
\* stored before it.
TotalNeverDecreases ==
    [][total_lessons_completed' >= total_lessons_completed]_vars

\* Lessons were counted, and then a Complete of a lesson that was already
\* completed was served at a later time.
TotalNeverDecreasesWitness ==
    /\ total_lessons_completed = 2
    /\ \A lessonId \in LessonsTable :
           /\ CompletedToday(lessonId)
           /\ lesson_progress[lessonId]["completed_at"] = now
    /\ now > 0

\* C11: completed_at, final_watch_time, rating and feedback of a lesson
\* record are set once, by the first Complete: a Complete of a lesson whose
\* record already has a completed_at leaves all four as they are stored,
\* whatever its body.
CompletionFields == {"completed_at", "final_watch_time", "rating", "feedback"}

CompletionFieldsSetOnce ==
    [][\A lessonId \in MergeLessonIds, body \in FeedbackCompleteBodies :
          (/\ Complete(lessonId, body)
           /\ Has(LessonProgressOf(lesson_progress, lessonId), "completed_at"))
          => Pick(LessonProgressOf(lesson_progress', lessonId), CompletionFields)
                 = Pick(LessonProgressOf(lesson_progress, lessonId), CompletionFields)]_vars

\* C12: for an unpublished lesson, a requester who is signed in and is not an
\* admin gets the access-denied error from Issue viewer URL, from Stream
\* proxy and from List materials, and none of them sends a signed URL, file
\* bytes or the list of materials.
NonAdminRequests == {[authorization |-> TokenOf("learner", TRUE)]}

AccessDenied(body) ==
    /\ body.status = 403
    /\ body.error = "Access denied"
    /\ ~Has(body, "data")
    /\ ~Has(body, "bytes_of")

UnpublishedDeniedToNonAdmin ==
    [][\A req \in NonAdminRequests, lessonId \in MergeLessonIds,
          materialId \in MaterialRequestIds, upstreamResponds \in BOOLEAN :
          ~lessons[lessonId].is_published
          => /\ ViewRequest(req, lessonId, materialId) => AccessDenied(response')
             /\ StreamRequest(req, lessonId, materialId, upstreamResponds)
                    => AccessDenied(response')
             /\ ListRequest(req, lessonId) => AccessDenied(response')]_vars

\* C13: for an unpublished lesson that has a file material, a requester with
\* a valid token of an admin gets success from Issue viewer URL (a signed
\* URL), from Stream proxy (the bytes, when the storage provider answers)
\* and from List materials (the list).
AdminRequests == {[authorization |-> TokenOf("admin", TRUE)]}

HasFileMaterial(lessonId, materialId) ==
    \E i \in 1..Len(lessons[lessonId].support_materials) :
        /\ lessons[lessonId].support_materials[i].id = materialId
        /\ lessons[lessonId].support_materials[i].type = "file"

UnpublishedServedToAdmin ==
    [][\A req \in AdminRequests, lessonId \in MergeLessonIds :
          (~lessons[lessonId].is_published /\ HasFileMaterial(lessonId, FileMaterialId))
          => /\ ViewRequest(req, lessonId, FileMaterialId)
                    => response'.status = 200 /\ Has(response'.data, "signedUrl")
             /\ StreamRequest(req, lessonId, FileMaterialId, TRUE)
                    => response'.status = 200 /\ Has(response', "bytes_of")
             /\ ListRequest(req, lessonId)
                    => response'.status = 200 /\ Has(response'.data, "materials")]_vars

\* C14: no response of List materials or of Issue viewer URL holds, for a
\* file material, the stored url or the storage object id: a file material
\* is sent with access-URL templates or a signed URL only.
StorageReferenceKeys == {"url", "cloudinaryPublicId"}

NoStorageReferenceSent ==
    Has(response, "data")
    => /\ StorageReferenceKeys \cap DOMAIN response.data = {}
       /\ Has(response.data, "materials")
          => \A i \in 1..Len(response.data.materials) :
                 response.data.materials[i].type = "file"
                 => StorageReferenceKeys \cap DOMAIN response.data.materials[i] = {}

\* C15: when progress updates of one lesson are served at the same time,
\* their reads and writes interleaved in any order, what is stored for
\* last_watched_position, total_watch_time and completion_percentage still
\* never decreases from one stored state to the next.
ConcurrentNumbersNeverDecrease ==
    [][\A lessonId \in MergeLessonIds :
          LET stored == LessonProgressOf(lesson_progress, lessonId)
              written == LessonProgressOf(lesson_progress', lessonId)
          IN \A key \in {"last_watched_position", "total_watch_time",
                          "completion_percentage"} :
                 GetOr(written, key, 0) >= GetOr(stored, key, 0)]_vars

\* C16: a lifecycle request that is rejected with a client error writes
\* nothing: a Progress update whose last_watched_position or total_watch_time
\* is missing or not a number, and a Start of a lesson that does not exist,
\* leave lesson_progress, the statistics and last_activity_date as they are;
\* and so does every request that is answered with an error.
RejectedRequestsWriteNothing ==
    [][/\ \A lessonId \in MergeLessonIds, body \in InvalidProgressBodies :
              Progress(lessonId, body) => UNCHANGED userRow
       /\ \A lessonId \in UnknownLessonIds :
              Start(lessonId) => UNCHANGED userRow
       /\ Has(response', "error") => UNCHANGED userRow]_vars

\* A Start of an unknown lesson and then a Progress update without numbers
\* were rejected, and the record stored before them is still there.
RejectedRequestsWitness ==
    /\ previous_response = [error |-> "Lesson not found"]
    /\ response = [error |-> "Invalid data"]
    /\ Resume("A").last_position = 2
    /\ Resume("A").total_watch_time = 1
    /\ last_activity_date = SomeDate(today)

\* C17: a Complete of a lesson that is not stored as completed, on a day on
\* which no other lesson has been completed, stores the streak of the
\* reference rule: current_streak + 1 if last_activity_date is yesterday,
\* current_streak unchanged if it is today, 1 if it is older or null; and
\* it stores max(longest_streak, new current_streak) as longest_streak.
FirstCompletionOfTheDay(lessonId, body) ==
    /\ Complete(lessonId, body)
    /\ ~IsCompleted(LessonProgressOf(lesson_progress, lessonId))
    /\ ~\E other \in LessonsTable \ {lessonId} : CompletedToday(other)

ReferenceStreak ==
    IF last_activity_date = SomeDate(today - 1) THEN current_streak + 1
    ELSE IF last_activity_date = SomeDate(today) THEN current_streak
    ELSE 1

StatusFollowsStoredPercentage ==
    \A lessonId \in MergeLessonIds :
        IsProgressResponse(response, lessonId)
        => Resume(lessonId).status =
               IF Resume(lessonId).total_progress >= 100
               THEN "completed" ELSE "in_progress"

\* C19: a Complete of a lesson that is not stored as completed returns as
\* new_badges exactly the badges whose threshold the new counts meet
\* (total_lessons_completed 1, 5 or 10; current_streak 3, 7 or 30) and that
\* badges_earned did not hold, and stores badges_earned with new_badges
\* added; a Complete of a completed lesson returns no new badge and stores
\* badges_earned as it was.
AllBadges ==
    {FirstLessonBadge, FiveLessonsBadge, TenLessonsBadge,
     ThreeDayStreakBadge, WeekStreakBadge, MonthStreakBadge}

ThresholdMet(badge, total, streak) ==
    \/ badge = FirstLessonBadge /\ total = 1
    \/ badge = FiveLessonsBadge /\ total = 5
    \/ badge = TenLessonsBadge /\ total = 10
    \/ badge = ThreeDayStreakBadge /\ streak = 3
    \/ badge = WeekStreakBadge /\ streak = 7
    \/ badge = MonthStreakBadge /\ streak = 30

Elements(list) == {list[i] : i \in 1..Len(list)}

CountedCompletionHasStreak ==
    [][\A lessonId \in LessonsTable, body \in CompleteBodies({}) :
          (/\ Complete(lessonId, body)
           /\ ~IsCompleted(LessonProgressOf(lesson_progress, lessonId)))
          => /\ current_streak' >= 1
             /\ CompleteResult(lessonId, body).current_streak = current_streak']_vars

\* Both lessons are completed today and only one was counted: the other was
\* marked completed by a progress update, so the counted completion found
\* a completion of the day and a streak of 0, and stored 1.
CountedCompletionWitness ==
    /\ \A lessonId \in LessonsTable : CompletedToday(lessonId)
    /\ total_lessons_completed = 1
    /\ current_streak = 1
    /\ longest_streak = 1
    /\ today = 0

\* C21: Start and Progress update change only the progress record of the
\* lesson they address: current_streak, longest_streak,
\* total_lessons_completed, badges_earned and last_activity_date, and the
\* records of the other lessons, are after the request what they were before.
StartAndProgressKeepStatistics ==
    [][\A lessonId \in LessonsTable :
          (\/ Start(lessonId)
           \/ \E body \in StreakProgressBodies : Progress(lessonId, body))
          => /\ UNCHANGED <<current_streak, longest_streak,
                            total_lessons_completed, badges_earned,
                            last_activity_date>>
             /\ \A other \in LessonsTable \ {lessonId} :
                    LessonProgressOf(lesson_progress', other)
                        = LessonProgressOf(lesson_progress, other)]_vars

\* C22: each lesson contributes at most 1 to total_lessons_completed: the
\* count never exceeds the number of lessons that have been completed.  (A
\* record that was ever stored as completed holds completion_percentage 100
\* from then on, so these are the lessons that have been completed.)
LessonsEverCompleted ==
    {lessonId \in LessonsTable : Resume(lessonId).total_progress >= 100}

EachLessonCountedOnce ==
    total_lessons_completed <= Cardinality(LessonsEverCompleted)

\* C23: in every state, each lesson record whose status is completed has a
\* completed_at, and the completed records have all been counted:
\* total_lessons_completed is at least their number.
CompletedRecords ==
    {lessonId \in LessonsTable :
        IsCompleted(LessonProgressOf(lesson_progress, lessonId))}

CompletedRecordsAreCounted ==
    /\ \A lessonId \in CompletedRecords :
           Has(LessonProgressOf(lesson_progress, lessonId), "completed_at")
    /\ total_lessons_completed >= Cardinality(CompletedRecords)

\* C24: when Complete requests of one user interleave, the statistics never
\* regress: no write stores a smaller total_lessons_completed than the one
\* stored before it, or a badges_earned that lacks a badge stored before it.
StatisticsNeverRegress ==
    [][/\ total_lessons_completed' >= total_lessons_completed
       /\ Elements(badges_earned) \subseteq Elements(badges_earned')]_vars

\* C25: when two requests of one user for two different lessons interleave,
\* the write of one leaves the stored record of the other lesson as it is.
WriteKeepsOtherLesson ==
    [][\A request \in Requests :
          WriteUser(request)
          => \A other \in LessonsTable \ {inflight[request].lesson_id} :
                 LessonProgressOf(lesson_progress', other)
                     = LessonProgressOf(lesson_progress, other)]_vars

\* C26: a Progress update and a Complete for a lesson id that is not in the
\* lessons table are rejected with an error, as Start is, and leave
\* lesson_progress, the statistics and last_activity_date as they are.
UnknownLessonIsRejected ==
    [][\A lessonId \in UnknownLessonIds :
          /\ \A body \in LookupProgressBodies :
                 Progress(lessonId, body)
                     /\ response' = ProgressResponse(lessonId, body)
                 => UNCHANGED userRow /\ Has(response', "error")
          /\ \A body \in CompleteBodies({}) :
                 Complete(lessonId, body)
                     /\ response' = CompleteResponse(lessonId, body)
                 => UNCHANGED userRow /\ Has(response', "error")]_vars

\* C27: Stream proxy sends file bytes only for a token that authenticateToken
\* would accept: validly signed, of a user that exists and is active. A token
\* of a deactivated or missing user never gets bytes.
AcceptedByAuthenticateToken(token) ==
    Has(AuthenticateToken([authorization |-> token]), "user")

StreamServesAuthenticatedOnly ==
    [][\A req \in Credentials, lessonId \in MaterialsLessonIds,
          materialId \in MaterialRequestIds, upstreamResponds \in BOOLEAN :
          (StreamRequest(req, lessonId, materialId, upstreamResponds)
               /\ Has(response', "bytes_of"))
          => /\ StreamToken(req) # << >>
             /\ AcceptedByAuthenticateToken(Head(StreamToken(req)))]_vars

\* C28: each stored OTP yields at most one successful login, also when a
\* second verify-otp is checked while the first is between its check and its
\* response and has not deleted the entry yet.
EachOtpLogsInOnce ==
    \A i, j \in 1..Len(logins) : logins[i] = logins[j] => i = j

\* C29, as stated: no stored OTP counts more than three failed guesses, and
\* once attempts has reached 3 the next verify-otp for the entry is answered
\* with too-many-attempts and deletes the entry, also with the correct code.
ExhaustedCodeIsRefused ==
    [][/\ \A email \in DOMAIN otpStore' : otpStore'[email].attempts <= MaxAttempts
       /\ \A request \in Requests, email \in VerifyEmails, otp \in OtpCodes :
              (/\ OtpVerifyOf(request, email, otp)
               /\ Has(otpStore, email)
               /\ otpStore[email].attempts >= MaxAttempts)
              => /\ response'.status = 429
                 /\ response'.error = "Too many attempts"
                 /\ ~Has(otpStore', email)
                 /\ inflight' = inflight
                 /\ logins' = logins]_vars

\* C29, amended: no stored OTP counts more than three failed guesses, and
\* once attempts has reached 3 the next verify-otp for the entry is refused
\* and deletes the entry, also with the correct code: with too-many-attempts
\* while the entry has not expired, with OTP expired once it has.
ExhaustedCodeIsRefusedOrExpired ==
    [][/\ \A email \in DOMAIN otpStore' : otpStore'[email].attempts <= MaxAttempts
       /\ \A request \in Requests, email \in VerifyEmails, otp \in OtpCodes :
              (/\ OtpVerifyOf(request, email, otp)
               /\ Has(otpStore, email)
               /\ otpStore[email].attempts >= MaxAttempts)
              => /\ IF now > otpStore[email].expires
                    THEN response'.status = 400 /\ response'.error = "OTP expired"
                    ELSE response'.status = 429
                             /\ response'.error = "Too many attempts"
                 /\ ~Has(response', "tokens")
                 /\ ~Has(otpStore', email)
                 /\ inflight' = inflight
                 /\ logins' = logins]_vars

\* The correct code was sent for an unexpired entry that had three failed
\* guesses: it was refused with too-many-attempts and the entry is gone.
ExhaustedCodeWitness ==
    /\ GetOr(response, "error", "") = "Too many attempts"
    /\ Has(verified, "stored") /\ verified.stored # << >>
    /\ verified.otp = Head(verified.stored).otp
    /\ Head(verified.stored).attempts = MaxAttempts
    /\ ~Head(verified.stored).expired
    /\ ~Has(otpStore, verified.email)
    /\ logins = << >>

\* C30: a verify-otp that finds the entry after its expiry is answered with
\* an error, issues no tokens and removes the entry, also with the correct
\* code; and the cleanup timer removes only entries whose expiry has passed.
ExpiredCodeIsRefused ==
    [][/\ \A request \in Requests, email \in VerifyEmails, otp \in OtpCodes :
              (/\ OtpVerifyOf(request, email, otp)
               /\ Has(otpStore, email)
               /\ now > otpStore[email].expires)
              => /\ response'.status = 400
                 /\ response'.error = "OTP expired"
                 /\ ~Has(response', "tokens")
                 /\ ~Has(otpStore', email)
                 /\ inflight' = inflight
                 /\ logins' = logins
       /\ OtpCleanup
          => \A email \in DOMAIN otpStore :
                 IF now > otpStore[email].expires
                 THEN ~Has(otpStore', email)
                 ELSE Has(otpStore', email) /\ otpStore'[email] = otpStore[email]]_vars

\* The correct code was sent after the expiry of its entry, with guesses to
\* spare: it was refused as expired and the entry is gone.
ExpiredCodeWitness ==
    /\ GetOr(response, "error", "") = "OTP expired"
    /\ Has(verified, "stored") /\ verified.stored # << >>
    /\ verified.otp = Head(verified.stored).otp
    /\ Head(verified.stored).attempts < MaxAttempts
    /\ Head(verified.stored).expired
    /\ ~Has(otpStore, verified.email)
    /\ logins = << >>

====
